---- MODULE Spec2Model ----
(***************************************************************************)
(* Bio.Align.fasta: reader (AlignmentIterator.parse) and writer            *)
(* (AlignmentWriter.format_alignment) of aligned FASTA.                    *)
(*                                                                         *)
(* A Python str is modelled as a sequence of one-character strings, so     *)
(* that startswith, rstrip, strip, split, replace and join are computed    *)
(* character by character.                                                 *)
(***************************************************************************)
EXTENDS Integers, Sequences, FiniteSets, TLC

VARIABLES
    mode,           \* "read": a stream is parsed, then the result is formatted;
                    \* "write": an object is formatted, then the text is parsed
    pc,             \* "reading", "parsed", "writing", "formatted", "failed"
    stream,         \* the lines parse has taken from its stream so far
    input,          \* written lines not yet read back (mode "write")
    names,          \* parse: names
    descriptions,   \* parse: descriptions
    lines,          \* parse: lines, the gapped buffer of each record
    alignment,      \* the alignment parse yielded, or NoObject
    given,          \* the argument of format_alignment, or NoObject
    outlines,       \* format_alignment: lines
    text,           \* the str format_alignment returned
    error           \* the exception raised, or ""

vars == <<mode, pc, stream, input, names, descriptions, lines,
          alignment, given, outlines, text, error>>

-----------------------------------------------------------------------------
(* Bounds of the model *)

MaxStream == 5      \* lines supplied by the input stream
MaxRows == 2        \* rows of an alignment handed to the writer
MaxBlocks == 2      \* blocks of an alignment handed to the writer
MaxSeqLen == 2      \* residues of a record handed to the writer

-----------------------------------------------------------------------------
(* Python str primitives *)

Whitespace == {" ", "\n"}

RECURSIVE rstrip(_)
rstrip(s) ==
    IF s = <<>> THEN <<>>
    ELSE IF s[Len(s)] \in Whitespace THEN rstrip(SubSeq(s, 1, Len(s) - 1))
    ELSE s

RECURSIVE lstrip(_)
lstrip(s) ==
    IF s = <<>> THEN <<>>
    ELSE IF s[1] \in Whitespace THEN lstrip(Tail(s))
    ELSE s

(* variant of strip: str.rstrip *)
strip_right(s) == rstrip(s)

strip(s) == lstrip(rstrip(s))

startswith(s, c) == Len(s) > 0 /\ s[1] = c

(* index of the first whitespace character of s, or Len(s) + 1 *)
RECURSIVE FirstWhitespace(_, _)
FirstWhitespace(s, i) ==
    IF i > Len(s) THEN i
    ELSE IF s[i] \in Whitespace THEN i
    ELSE FirstWhitespace(s, i + 1)

(* variant of split: str.split(" ", 1), which splits at the first space    *)
(* and yields one empty part for an empty str                              *)
split_space(s) ==
    LET i == CHOOSE k \in 1..(Len(s) + 1) :
                 /\ k <= Len(s) => s[k] = " "
                 /\ \A j \in 1..(k - 1) : s[j] # " "
    IN  IF i > Len(s) THEN <<s>>
        ELSE <<SubSeq(s, 1, i - 1), SubSeq(s, i + 1, Len(s))>>

(* str.split(None, 1): at most two parts, separated by a whitespace run *)
split(s) ==
    LET t == lstrip(s)
        i == FirstWhitespace(t, 1)
        rest == lstrip(SubSeq(t, i, Len(t)))
    IN  IF t = <<>> THEN <<>>
        ELSE IF rest = <<>> THEN <<SubSeq(t, 1, i - 1)>>
        ELSE <<SubSeq(t, 1, i - 1), rest>>

(* str.replace(c, "") *)
replace(s, c) == SelectSeq(s, LAMBDA x : x # c)

(* "\n".join(ls) *)
RECURSIVE join(_)
join(ls) ==
    IF ls = <<>> THEN <<>>
    ELSE IF Len(ls) = 1 THEN ls[1]
    ELSE ls[1] \o <<"\n">> \o join(Tail(ls))

(* the lines a text stream yields when iterated: each keeps its newline *)
RECURSIVE readlines(_)
readlines(s) ==
    IF s = <<>> THEN <<>>
    ELSE LET i == CHOOSE k \in 1..(Len(s) + 1) :
                     /\ k <= Len(s) => s[k] = "\n"
                     /\ \A j \in 1..(k - 1) : s[j] # "\n"
         IN  IF i > Len(s) THEN <<s>>
             ELSE <<SubSeq(s, 1, i)>> \o readlines(SubSeq(s, i + 1, Len(s)))

-----------------------------------------------------------------------------
(* Bio.SeqRecord.SeqRecord and Bio.Align.Alignment *)

(* the description a SeqRecord gets when none is passed to its constructor *)
UnknownDescription ==
    <<"<", "u", "n", "k", "n", "o", "w", "n", " ",
      "d", "e", "s", "c", "r", "i", "p", "t", "i", "o", "n", ">">>

(* an optional description as parse holds it: None, or a str *)
None == [given |-> FALSE, str |-> <<>>]
Some(s) == [given |-> TRUE, str |-> s]

(* SeqRecord(sequence, name) and SeqRecord(sequence, name, description=...) *)
SeqRecord(sequence, name, description) ==
    [seq |-> sequence, id |-> name,
     description |-> IF description.given THEN description.str
                     ELSE UnknownDescription]

Alignment(records, coordinates) ==
    [type |-> "Alignment", sequences |-> records, coordinates |-> coordinates]

(* a value that is no Alignment; NoObject stands for "no value" *)
NotAlignment(t, records) ==
    [type |-> t, sequences |-> records, coordinates |-> <<>>]
NoObject == NotAlignment("NoneType", <<>>)

(* variant: any object passes for the type asked for *)
isinstance_any(obj, t) == TRUE

isinstance(obj, t) == obj.type = t

(* the set of rows that hold a residue (no gap) in column i *)
Pattern(ls, i) == {r \in 1..Len(ls) : ls[r][i] # "-"}

(* variant of InferPath: the counter of a row advances at its gaps too *)
RECURSIVE InferPathCountingGaps(_, _, _, _)
InferPathCountingGaps(ls, i, counters, path) ==
    IF i > Len(ls[1]) THEN Append(path, counters)
    ELSE LET boundary == i = 1 \/ Pattern(ls, i) # Pattern(ls, i - 1)
             advanced == [r \in 1..Len(ls) |-> counters[r] + 1]
         IN  InferPathCountingGaps(ls, i + 1, advanced,
                       IF boundary THEN Append(path, counters) ELSE path)

(* variant of InferPath: the counters are recorded at every column *)
RECURSIVE InferPathEveryColumn(_, _, _, _)
InferPathEveryColumn(ls, i, counters, path) ==
    IF i > Len(ls[1]) THEN Append(path, counters)
    ELSE LET advanced == [r \in 1..Len(ls) |->
                            IF ls[r][i] # "-" THEN counters[r] + 1
                            ELSE counters[r]]
         IN  InferPathEveryColumn(ls, i + 1, advanced, Append(path, counters))

(* Alignment.infer_coordinates: walk the columns left to right with one    *)
(* counter of residues per row; record the counters at the first column,   *)
(* at every column whose pattern differs from the previous column's, and   *)
(* once more after the last column.                                        *)
RECURSIVE InferPath(_, _, _, _)
InferPath(ls, i, counters, path) ==
    IF i > Len(ls[1]) THEN Append(path, counters)
    ELSE LET boundary == i = 1 \/ Pattern(ls, i) # Pattern(ls, i - 1)
             advanced == [r \in 1..Len(ls) |->
                            IF ls[r][i] # "-" THEN counters[r] + 1
                            ELSE counters[r]]
         IN  InferPath(ls, i + 1, advanced,
                       IF boundary THEN Append(path, counters) ELSE path)

infer_coordinates(ls) ==
    LET path == InferPath(ls, 1, [r \in 1..Len(ls) |-> 0], <<>>)
    IN  [r \in 1..Len(ls) |-> [k \in 1..Len(path) |-> path[k][r]]]

(* infer_coordinates needs lines of one length *)
EqualLength(ls) == \A r \in 1..Len(ls) : Len(ls[r]) = Len(ls[1])

NumBlocks(coordinates) == Len(coordinates[1]) - 1

Step(coordinates, r, k) == coordinates[r][k + 1] - coordinates[r][k]

(* column width of block k: the advance of the rows that advance in it *)
BlockWidth(coordinates, k) ==
    LET steps == {Step(coordinates, r, k) : r \in 1..Len(coordinates)}
    IN  CHOOSE w \in steps : \A v \in steps : v <= w

RECURSIVE Dashes(_)
Dashes(n) == IF n <= 0 THEN <<>> ELSE <<"-">> \o Dashes(n - 1)

(* row r of an alignment as gapped text: per block, the residues the row   *)
(* covers, or dashes of the block's width where the row does not advance   *)
RECURSIVE AlignedRow(_, _, _)
AlignedRow(a, r, k) ==
    IF k > NumBlocks(a.coordinates) THEN <<>>
    ELSE LET start == a.coordinates[r][k]
             end == a.coordinates[r][k + 1]
             piece == IF start # end
                      THEN SubSeq(a.sequences[r].seq, start + 1, end)
                      ELSE Dashes(BlockWidth(a.coordinates, k))
         IN  piece \o AlignedRow(a, r, k + 1)

-----------------------------------------------------------------------------
(* Inputs *)

(* lines an input stream may supply *)
HeaderLines ==
    { <<">", "a">>,
      <<">", "b", " ", "d", "\n">>,
      <<">", " ", "c", " ", " ", "d", " ", "e", " ", "\n">>,
      <<">", " ", "\n">> }

SequenceLines ==
    { <<"A">>,
      <<"-">>,
      <<"A", "-", "\n">>,
      <<"-", "C">>,
      <<" ", "G", "-", "-", " ", "\n">>,
      <<"\n">> }

Lines == HeaderLines \cup SequenceLines

(* records a caller may put into an alignment *)
Ids == { <<"a">> }
Descriptions == { UnknownDescription, <<>>, <<"d">> }

(* the residues of a sequence of n residues *)
Residues(n) == [i \in 1..n |-> <<"A", "C", "G", "T">>[((i - 1) % 4) + 1]]

(* a block of columns: its width and the rows that hold residues in it *)
Blocks(n) ==
    { [width |-> w, rows |-> rows] :
        w \in 0..MaxSeqLen, rows \in SUBSET (1..n) }

(* the residues of row r in blocks 1..k *)
RECURSIVE Covered(_, _, _)
Covered(bs, r, k) ==
    IF k = 0 THEN 0
    ELSE Covered(bs, r, k - 1) + (IF r \in bs[k].rows THEN bs[k].width ELSE 0)

(* the coordinate tables of n rows and nb blocks: in every block a row     *)
(* advances by the block's width or not at all                             *)
CoordinateTables(n, nb) ==
    { [r \in 1..n |-> [k \in 1..(nb + 1) |-> Covered(bs, r, k - 1)]] :
        bs \in { b \in [1..nb -> Blocks(n)] :
                  /\ \A k \in 1..nb : b[k].width = 0 <=> b[k].rows = {}
                  /\ \A r \in 1..n : Covered(b, r, nb) <= MaxSeqLen } }

(* an alignment a caller may hand to the writer: every row is aligned     *)
(* from its first to its last residue; h gives each row's id, description *)
AlignmentOf(c, h) ==
    Alignment([r \in 1..Len(c) |->
                 [seq |-> Residues(c[r][Len(c[r])]),
                  id |-> h[r][1], description |-> h[r][2]]], c)

Records ==
    { [seq |-> Residues(n), id |-> i, description |-> d] :
        n \in 0..MaxSeqLen, i \in Ids, d \in Descriptions }

NotAlignments ==
    { NoObject, NotAlignment("str", <<>>) }
    \cup { NotAlignment("list", <<rec>>) : rec \in Records }

-----------------------------------------------------------------------------
(* The state machine *)

Init ==
    /\ \/ /\ mode = "read"
          /\ given = NoObject
       \/ /\ mode = "write"
          /\ given \in NotAlignments
       \/ /\ mode = "write"
          /\ \E n \in 1..MaxRows, nb \in 0..MaxBlocks :
               \E c \in CoordinateTables(n, nb),
                  h \in [1..n -> Ids \X Descriptions] :
                   given = AlignmentOf(c, h)
    /\ pc = IF mode = "read" THEN "reading" ELSE "writing"
    /\ stream = <<>>
    /\ input = <<>>
    /\ names = <<>>
    /\ descriptions = <<>>
    /\ lines = <<>>
    /\ alignment = NoObject
    /\ outlines = <<>>
    /\ text = <<>>
    /\ error = ""

(* the lines the stream may yield next *)
NextLines ==
    IF mode = "read"
    THEN IF Len(stream) < MaxStream THEN Lines ELSE {}
    ELSE IF input # <<>> THEN {Head(input)} ELSE {}

(* the stream may be exhausted *)
EndOfStream == mode = "read" \/ input = <<>>

(* the stream moves past line *)
Consume(line) ==
    /\ stream' = Append(stream, line)
    /\ input' = IF mode = "read" THEN input ELSE Tail(input)

Raise(e) ==
    /\ error' = e
    /\ pc' = "failed"

(* parse, one turn of the loop on a header line *)
ParseHeader ==
    /\ pc = "reading"
    /\ \E line \in NextLines :
        /\ startswith(line, ">")
        /\ Consume(line)
        /\ LET parts == split(rstrip(Tail(line)))
           IN  IF parts = <<>>
               THEN /\ Raise("IndexError")
                    /\ UNCHANGED <<names, descriptions, lines>>
               ELSE /\ names' = Append(names, parts[1])
                    /\ descriptions' =
                          Append(descriptions,
                                 IF Len(parts) = 2 THEN Some(parts[2]) ELSE None)
                    /\ lines' = Append(lines, <<>>)
                    /\ UNCHANGED <<pc, error>>
    /\ UNCHANGED <<mode, alignment, given, outlines, text>>

(* variant of Extend: the line is appended as it is read *)
ExtendUnstripped(buffers, line) ==
    [buffers EXCEPT ![Len(buffers)] = @ \o line]

(* variant of Extend: the line replaces the buffer *)
ExtendReplacing(buffers, line) ==
    [buffers EXCEPT ![Len(buffers)] = strip(line)]

(* lines[-1] += line.strip() *)
Extend(buffers, line) ==
    [buffers EXCEPT ![Len(buffers)] = @ \o strip(line)]

(* parse, one turn of the loop on any other line *)
ParseSequence ==
    /\ pc = "reading"
    /\ \E line \in NextLines :
        /\ ~startswith(line, ">")
        /\ Consume(line)
        /\ IF lines = <<>>
           THEN /\ Raise("IndexError")
                /\ UNCHANGED lines
           ELSE /\ lines' = Extend(lines, line)
                /\ UNCHANGED <<pc, error>>
    /\ UNCHANGED <<mode, names, descriptions, alignment, given, outlines, text>>

(* variant of ParsedRecords: the gaps stay in the sequences *)
ParsedRecordsGapped ==
    [r \in 1..Len(lines) |-> SeqRecord(lines[r], names[r], descriptions[r])]

(* the records parse builds from names, descriptions and lines *)
ParsedRecords ==
    [r \in 1..Len(lines) |->
        SeqRecord(replace(lines[r], "-"), names[r], descriptions[r])]

(* parse, after the loop *)
ParseEnd ==
    /\ pc = "reading"
    /\ EndOfStream
    /\ IF lines = <<>>
       THEN /\ Raise("ValueError: Empty file.")
            /\ UNCHANGED alignment
       ELSE IF ~EqualLength(lines)
       THEN /\ Raise("AssertionError")
            /\ UNCHANGED alignment
       ELSE /\ alignment' = Alignment(ParsedRecords, infer_coordinates(lines))
            /\ pc' = "parsed"
            /\ UNCHANGED error
    /\ UNCHANGED <<mode, stream, input, names, descriptions, lines,
                   given, outlines, text>>

(* the header line format_alignment writes for a record *)
HeaderLine(sequence) ==
    <<">">> \o sequence.id \o <<" ">> \o sequence.description

(* variant of FormatLines: the sequence is written without its gaps *)
RECURSIVE FormatLinesUngapped(_, _)
FormatLinesUngapped(a, r) ==
    IF r > Len(a.sequences) \/ r > Len(a.coordinates) THEN <<>>
    ELSE <<HeaderLine(a.sequences[r]), a.sequences[r].seq>>
         \o FormatLinesUngapped(a, r + 1)

(* the list format_alignment builds: a header and a gapped line per row *)
RECURSIVE FormatLines(_, _)
FormatLines(a, r) ==
    IF r > Len(a.sequences) \/ r > Len(a.coordinates) THEN <<>>
    ELSE <<HeaderLine(a.sequences[r]), AlignedRow(a, r, 1)>>
         \o FormatLines(a, r + 1)

format_alignment(obj) ==
    /\ given' = obj
    /\ IF ~isinstance(obj, "Alignment")
       THEN /\ Raise("TypeError")
            /\ UNCHANGED <<outlines, text>>
       ELSE /\ outlines' = FormatLines(obj, 1)
            /\ text' = join(FormatLines(obj, 1))
            /\ pc' = "formatted"
            /\ UNCHANGED error
    /\ UNCHANGED <<mode, stream, input, names, descriptions, lines, alignment>>

(* format_alignment on the object a caller supplies *)
FormatGiven ==
    /\ pc = "writing"
    /\ format_alignment(given)

(* format_alignment on the alignment parse yielded *)
FormatParsed ==
    /\ pc = "parsed"
    /\ mode = "read"
    /\ format_alignment(alignment)

(* the written text is opened as a stream for parse *)
ReadBack ==
    /\ pc = "formatted"
    /\ mode = "write"
    /\ input' = readlines(text)
    /\ pc' = "reading"
    /\ UNCHANGED <<mode, stream, names, descriptions, lines, alignment,
                   given, outlines, text, error>>

Next ==
    \/ ParseHeader
    \/ ParseSequence
    \/ ParseEnd
    \/ FormatGiven
    \/ FormatParsed
    \/ ReadBack

Spec == Init /\ [][Next]_vars

-----------------------------------------------------------------------------
(* Vocabulary of the properties *)

IsHeader(line) == Len(line) > 0 /\ line[1] = ">"

HeaderPositions(st) == {i \in 1..Len(st) : IsHeader(st[i])}

(* the k-th smallest element of a set of numbers *)
Kth(S, k) == CHOOSE x \in S : Cardinality({y \in S : y < x}) = k - 1

(* position in st of the k-th header line, and where its record ends *)
HeaderAt(st, k) == Kth(HeaderPositions(st), k)
RecordEnd(st, k) ==
    IF k < Cardinality(HeaderPositions(st)) THEN HeaderAt(st, k + 1) - 1
    ELSE Len(st)

(* s without its leading and trailing whitespace *)
Trimmed(s) ==
    LET keep == {i \in 1..Len(s) : s[i] \notin Whitespace}
    IN  IF keep = {} THEN <<>>
        ELSE SubSeq(s, Kth(keep, 1), Kth(keep, Cardinality(keep)))

(* the lines st[i..j], each trimmed, one after the other *)
RECURSIVE Concatenated(_, _, _)
Concatenated(st, i, j) ==
    IF i > j THEN <<>>
    ELSE Concatenated(st, i, j - 1) \o Trimmed(st[j])

Ungapped(s) == SelectSeq(s, LAMBDA x : x # "-")

(* header lines that carry a name token *)
HasName(line) == \E i \in 2..Len(line) : line[i] \notin Whitespace

(* the gapped buffers of the records of the input read so far: for each   *)
(* header line, the trimmed lines up to the next header line, concatenated *)
Buffers ==
    [k \in 1..Cardinality(HeaderPositions(stream)) |->
        Concatenated(stream, HeaderAt(stream, k) + 1, RecordEnd(stream, k))]

(* the buffers b are N gapped lines of one length L *)
Columns(b) == IF Len(b) = 0 THEN 0 ELSE Len(b[1])

EqualBuffers(b) == \A r \in 1..Len(b) : Len(b[r]) = Columns(b)

GapRows(b, i) == {r \in 1..Len(b) : b[r][i] = "-"}

AllGapColumns(b) == {i \in 1..Columns(b) : GapRows(b, i) = 1..Len(b)}

(* column boundaries: p lies between column p and column p + 1 *)
Boundaries(b) ==
    {0, Columns(b)}
    \cup {p \in 1..(Columns(b) - 1) : GapRows(b, p) # GapRows(b, p + 1)}

(* residues of row r in columns 1..p *)
ResiduesBefore(b, r, p) == Cardinality({i \in 1..p : b[r][i] # "-"})

RECURSIVE SumWidths(_, _)
SumWidths(c, k) ==
    IF k = 0 THEN 0 ELSE SumWidths(c, k - 1) + BlockWidth(c, k)

(* s without the characters at the positions in drop *)
Without(s, drop) ==
    LET keep == (1..Len(s)) \ drop
    IN  [k \in 1..Cardinality(keep) |-> s[Kth(keep, k)]]

(* parse has yielded an alignment *)
Parsed == alignment.type = "Alignment"

(* format_alignment has returned a text for the alignment it was given *)
Formatted == given.type = "Alignment" /\ pc # "writing"

(* the name token of a header line that has one *)
NameToken(line) ==
    LET first == Kth({i \in 2..Len(line) : line[i] \notin Whitespace}, 1)
        stop == Kth({i \in first..(Len(line) + 1) :
                        i > Len(line) \/ line[i] \in Whitespace}, 1)
    IN  SubSeq(line, first, stop - 1)

(* a description that is absent (the record's default) or empty *)
NoDescription(d) == d = <<>> \/ d = UnknownDescription

ExpectedHeader(rec) ==
    IF NoDescription(rec.description) THEN <<">">> \o rec.id
    ELSE <<">">> \o rec.id \o <<" ">> \o rec.description

-----------------------------------------------------------------------------
(* Properties *)

(* C1: parsing the lines of format_alignment(A) yields an alignment with   *)
(* the same records in the same order and the same coordinate table as A.  *)
C1_RoundTrip ==
    (mode = "write" /\ given.type = "Alignment" /\ pc \in {"parsed", "failed"})
        => (pc = "parsed" /\ alignment = given)

(* C2: the header written for a row is ">" id " " description when the     *)
(* record has a description, and exactly ">" id when the description is    *)
(* absent or empty.                                                        *)
C2_HeaderLine ==
    Formatted =>
        \A r \in 1..Len(given.sequences) :
            outlines[2 * r - 1] = ExpectedHeader(given.sequences[r])

(* C3: an input without any header line, empty or not, makes parse fail    *)
(* with ValueError "Empty file." and yield no alignment.                   *)
C3_EmptyFile ==
    (mode = "read" /\ pc # "reading" /\ HeaderPositions(stream) = {})
        => (error = "ValueError: Empty file." /\ alignment = NoObject)

(* C4: format_alignment of a value that is no Alignment fails with a type  *)
(* error; no output line is built and no text is returned.                 *)
C4_TypeError ==
    (mode = "write" /\ given.type # "Alignment" /\ pc # "writing")
        => /\ pc = "failed"
           /\ error = "TypeError"
           /\ outlines = <<>>
           /\ text = <<>>

C4_Witness ==
    /\ mode = "write"
    /\ given.type = "list"
    /\ pc = "failed"
    /\ error = "TypeError"

C7_Monotonicity ==
    Parsed =>
        LET b == Buffers
            bounds == Boundaries(b)
        IN  /\ EqualBuffers(b)
            /\ Len(alignment.coordinates) = Len(b)
            /\ \A r \in 1..Len(b) :
                  LET row == alignment.coordinates[r]
                  IN  /\ Len(row) = Cardinality(bounds)
                      /\ row[1] = 0
                      /\ \A k \in 1..(Len(row) - 1) :
                            LET from == Kth(bounds, k)
                                to == Kth(bounds, k + 1)
                            IN  /\ row[k] <= row[k + 1]
                                /\ \/ /\ \A i \in (from + 1)..to : b[r][i] # "-"
                                      /\ row[k + 1] - row[k] = to - from
                                   \/ /\ \A i \in (from + 1)..to : b[r][i] = "-"
                                      /\ row[k + 1] = row[k]

C7_Witness ==
    /\ mode = "read"
    /\ Parsed
    /\ Len(Buffers) = 2
    /\ Buffers[2] = <<"A", "-">>
    /\ alignment.coordinates[1] = <<0, 1, 2>>
    /\ alignment.coordinates[2] = <<0, 1, 1>>

(* C8: a parsed coordinate table has a column exactly at the first column  *)
(* boundary, at every boundary where the set of gapped rows changes, and   *)
(* at the closing boundary; so adjacent blocks differ in their pattern of  *)
(* gapped rows and no row changes between gap and residue inside a block.  *)
C8_Minimality ==
    Parsed =>
        LET b == Buffers
            bounds == Boundaries(b)
        IN  /\ EqualBuffers(b)
            /\ Len(alignment.coordinates) = Len(b)
            /\ \A r \in 1..Len(b) :
                  LET row == alignment.coordinates[r]
                  IN  /\ Len(row) = Cardinality(bounds)
                      /\ \A k \in 1..Len(row) :
                            row[k] = ResiduesBefore(b, r, Kth(bounds, k))
            /\ \A k \in 1..(Cardinality(bounds) - 1) :
                  LET from == Kth(bounds, k)
                      to == Kth(bounds, k + 1)
                  IN  /\ \A i \in (from + 1)..to : GapRows(b, i) = GapRows(b, to)
                      /\ to < Columns(b) => GapRows(b, to) # GapRows(b, to + 1)

C8_Witness ==
    /\ mode = "read"
    /\ Parsed
    /\ Len(Buffers) = 2
    /\ Columns(Buffers) = 3
    /\ Cardinality(Boundaries(Buffers)) = 3
    /\ Len(alignment.coordinates[1]) = 3

(* a step of parse over a line that is no header *)
SequenceLineStep ==
    /\ Len(stream') = Len(stream) + 1
    /\ ~IsHeader(stream'[Len(stream')])

(* C9: each record's gapped buffer is the concatenation, in order, of the  *)
(* trimmed non-header lines between its header and the next header or the  *)
(* end of the input, however the sequence is wrapped; a non-header line    *)
(* extends the last record's buffer only and leaves the earlier buffers    *)
(* and every name and description as they were.                            *)
C9_Accumulation ==
    /\ [](\A k \in 1..Len(lines) :
            /\ lines[k] = Buffers[k]
            /\ Parsed => alignment.sequences[k].seq = Ungapped(lines[k]))
    /\ [][SequenceLineStep =>
            /\ names' = names
            /\ descriptions' = descriptions
            /\ Len(lines') = Len(lines)
            /\ \A k \in 1..(Len(lines) - 1) : lines'[k] = lines[k]]_vars

C9_Witness ==
    /\ mode = "read"
    /\ Parsed
    /\ Len(lines) = 2
    /\ HeaderAt(stream, 2) = 4
    /\ Len(stream) = 5
    /\ lines[1] = Trimmed(stream[2]) \o Trimmed(stream[3])
    /\ Len(Trimmed(stream[2])) > 0
    /\ Len(Trimmed(stream[3])) > 0

(* C10: names, descriptions and lines always have one entry per header     *)
(* line accepted so far; a parsed alignment has one record per header      *)
(* line, in the order of the input, and one coordinate row per record; a   *)
(* header line without a name token makes parse fail and adds no record.   *)
C10_OneRecordPerHeader ==
    LET headers == HeaderPositions(stream)
        named == {i \in headers : HasName(stream[i])}
    IN  /\ Len(names) = Cardinality(named)
        /\ Len(descriptions) = Len(names)
        /\ Len(lines) = Len(names)
        /\ \A k \in 1..Len(names) :
              names[k] = NameToken(stream[HeaderAt(stream, k)])
        /\ Parsed =>
              /\ Len(alignment.sequences) = Cardinality(headers)
              /\ Len(alignment.coordinates) = Len(alignment.sequences)
              /\ \A k \in 1..Len(names) :
                    alignment.sequences[k].id = names[k]
        /\ named # headers =>
              /\ pc = "failed"
              /\ alignment = NoObject

C10_Witness ==
    /\ mode = "read"
    /\ Parsed
    /\ Len(alignment.sequences) = 2
    /\ alignment.sequences[1].id = <<"b">>
    /\ alignment.sequences[2].id = <<"a">>

====
